---- MODULE Spec2Model ----
(***************************************************************************)
(* Model of the pupsh interactive shell (src/app/main.py).                 *)
(*                                                                         *)
(* A raw input line is a sequence of lexemes: a lexeme is a run of         *)
(* ordinary characters ("echo", "hi", ">>", "1>"), the blank SP or the     *)
(* single quote SQ.  A token is the sequence of lexemes shlex joins into   *)
(* one word; Cat gives the Python string of a line or of a token.          *)
(* Double quotes, backslashes and '#' comments are outside the alphabet.   *)
(***************************************************************************)
EXTENDS Integers, Sequences, FiniteSets, TLC

VARIABLES
    pc,                     \* "prompt" | "handle" | "exited" | "crashed" | "extract" | "extracted"
    command,                \* the line returned by input("$ "), a sequence of lexemes
    tokens,                 \* parse_input(command), or the input of extract_redirections
    extracted,              \* what extract_redirections returned (or raised)
    history,                \* readline's in-memory history, a sequence of strings
    last_appended_index,    \* module global, main.py:11
    initial_history_length, \* module global, main.py:12
    histfile,               \* os.environ.get("HISTFILE"), "" when unset
    fs,                     \* the file system: a map from the paths of the files to their lines
    cwd,                    \* os.getcwd()
    sys_stdout,             \* what sys.stdout refers to: Console or the path of a file object
    sys_stderr,             \* what sys.stderr refers to
    open_files,             \* paths of the file objects that are open
    opened,                 \* paths open() was called on for the current line, in call order
    console,                \* lines written to the terminal for the current line
    invoked,                \* names of the builtin handlers called for the current line
    spawned,                \* the subprocess.run calls made for the current line
    exit_status,            \* argument of sys.exit, NoStatus while the process lives
    error,                  \* the exception that killed the process, NoError otherwise
    nread,                  \* number of lines read by the steps of the run
    path_dirs,              \* os.environ["PATH"].split(os.pathsep)
    executables_cache,      \* module global _executables_cache, main.py:10
    scans,                  \* number of times get_all_executables went through the directories
    completion,             \* what auto_completer returned last
    ncomplete               \* number of calls of auto_completer so far

vars == <<pc, command, tokens, extracted, history, last_appended_index,
          initial_history_length, histfile, fs, cwd, sys_stdout, sys_stderr,
          open_files, opened, console, invoked, spawned, exit_status, error, nread, path_dirs, executables_cache, scans, completion, ncomplete>>

----------------------------------------------------------------------------
(* Bounds of the model *)

\* number of lines the read loop takes in one run of Spec
MaxLines == 2
\* number of lines the read loop takes in one run of SpecHistory
MaxHistoryLines == 3
\* number of lines the read loop takes in one run of SpecAppend
MaxAppendLines == 3
\* number of lines the read loop takes in one run of SpecCd
MaxCdLines == 3
\* number of lines the read loop takes in one run of SpecRead
MaxReadLines == 3
\* number of lines the read loop takes in one run of SpecList
MaxListLines == 3
\* number of lines the read loop takes in one run of SpecWatermark
MaxWatermarkLines == 3
\* number of lines the read loop takes in one run of SpecMulti
MaxMultiLines == 2
\* number of lines the read loop takes in one run of SpecLog
MaxLogLines == 2
\* number of lines the read loop takes in one run of SpecComplete
MaxCompleteLines == 2
\* number of calls of the completer in one run of SpecComplete
MaxCompletions == 3
\* longest token sequence given to extract_redirections on its own
MaxTokens == 4

----------------------------------------------------------------------------
(* Lexical level *)

SP == " "
SQ == "'"
Console == "<console>"
NoStatus == -1
NoError == "none"
None == "<None>"

RECURSIVE Cat(_)
\* the Python string spelled by a sequence of lexemes
Cat(s) == IF s = <<>> THEN "" ELSE Head(s) \o Cat(Tail(s))

RECURSIVE StripLeft(_)
StripLeft(s) == IF s # <<>> /\ Head(s) = SP THEN StripLeft(Tail(s)) ELSE s

RECURSIVE StripRight(_)
StripRight(s) ==
    IF s # <<>> /\ s[Len(s)] = SP THEN StripRight(SubSeq(s, 1, Len(s) - 1)) ELSE s

\* str.strip()
Strip(s) == StripRight(StripLeft(s))

RECURSIVE SplitFrom(_, _, _)
\* str.split(): the maximal blank-free runs of s, cur being the run under way
SplitFrom(s, cur, acc) ==
    IF s = <<>> THEN (IF cur = <<>> THEN acc ELSE Append(acc, cur))
    ELSE IF Head(s) = SP
         THEN SplitFrom(Tail(s), <<>>, IF cur = <<>> THEN acc ELSE Append(acc, cur))
         ELSE SplitFrom(Tail(s), Append(cur, Head(s)), acc)

Split(s) == SplitFrom(s, <<>>, <<>>)

RECURSIVE Join(_)
\* " ".join(toks), as a sequence of lexemes
Join(toks) ==
    IF toks = <<>> THEN <<>>
    ELSE IF Len(toks) = 1 THEN Head(toks)
    ELSE Head(toks) \o <<SP>> \o Join(Tail(toks))

Digits == {"0", "1", "2", "3", "4", "5", "6", "7", "8", "9"}

DigitValue(d) ==
    CASE d = "0" -> 0 [] d = "1" -> 1 [] d = "2" -> 2 [] d = "3" -> 3 [] d = "4" -> 4
      [] d = "5" -> 5 [] d = "6" -> 6 [] d = "7" -> 7 [] d = "8" -> 8 [] d = "9" -> 9

\* str.isdigit(): non-empty and digits only
IsDigit(s) == s # <<>> /\ \A i \in 1..Len(s) : s[i] \in Digits

RECURSIVE IntOf(_)
\* int(s) for a string of digits
IntOf(s) == IF s = <<>> THEN 0 ELSE 10 * IntOf(SubSeq(s, 1, Len(s) - 1)) + DigitValue(s[Len(s)])

RECURSIVE Lex(_, _, _, _, _)
\* shlex with posix=True and whitespace_split=True: blanks outside quotes end a
\* token, a quote opens or closes a quoted stretch and is dropped, and an open
\* quote at the end of the line raises ValueError
Lex(line, cur, started, inquote, acc) ==
    IF line = <<>>
    THEN IF inquote THEN [ok |-> FALSE, tokens |-> <<>>]
         ELSE [ok |-> TRUE, tokens |-> IF started THEN Append(acc, cur) ELSE acc]
    ELSE LET c == Head(line) rest == Tail(line) IN
         IF c = SQ THEN Lex(rest, cur, TRUE, ~inquote, acc)
         ELSE IF c = SP /\ ~inquote
              THEN Lex(rest, <<>>, FALSE, FALSE, IF started THEN Append(acc, cur) ELSE acc)
              ELSE Lex(rest, Append(cur, c), TRUE, inquote, acc)

parse_input(line) == Lex(line, <<>>, FALSE, FALSE, <<>>)

----------------------------------------------------------------------------
(* Redirection extraction *)

StdoutWrite == {">", "1>"}
StderrWrite == {"2>"}
StdoutAppend == {">>", "1>>"}
StderrAppend == {"2>>"}
Operators == StdoutWrite \cup StderrWrite \cup StdoutAppend \cup StderrAppend

RECURSIVE ExtractLoopKeepingTarget(_, _, _)
\* the loop with i+=1 after an operator: the target stays in the command
ExtractLoopKeepingTarget(toks, i, r) ==
    IF i > Len(toks) THEN r
    ELSE LET token == Cat(toks[i]) IN
         IF token \in Operators
         THEN IF i + 1 > Len(toks)
              THEN [r EXCEPT !.ok = FALSE]
              ELSE LET t == Cat(toks[i + 1]) IN
                   IF token \in StdoutWrite
                   THEN ExtractLoopKeepingTarget(toks, i + 1, [r EXCEPT !.stdout_target = t, !.stdout_mode = "w"])
                   ELSE IF token \in StderrWrite
                   THEN ExtractLoopKeepingTarget(toks, i + 1, [r EXCEPT !.stderr_target = t, !.stderr_mode = "w"])
                   ELSE IF token \in StdoutAppend
                   THEN ExtractLoopKeepingTarget(toks, i + 1, [r EXCEPT !.stdout_target = t, !.stdout_mode = "a"])
                   ELSE ExtractLoopKeepingTarget(toks, i + 1, [r EXCEPT !.stderr_target = t, !.stderr_mode = "a"])
         ELSE ExtractLoopKeepingTarget(toks, i + 1, [r EXCEPT !.command = Append(@, toks[i])])

RECURSIVE ExtractLoopFirstWins(_, _, _)
\* the loop in which a stream keeps the first target named for it
ExtractLoopFirstWins(toks, i, r) ==
    IF i > Len(toks) THEN r
    ELSE LET token == Cat(toks[i]) IN
         IF token \in Operators
         THEN IF i + 1 > Len(toks)
              THEN [r EXCEPT !.ok = FALSE]
              ELSE LET t == Cat(toks[i + 1])
                       freeout == r.stdout_target = None
                       freeerr == r.stderr_target = None
                   IN
                   IF token \in StdoutWrite
                   THEN ExtractLoopFirstWins(toks, i + 2, IF freeout THEN [r EXCEPT !.stdout_target = t, !.stdout_mode = "w"] ELSE r)
                   ELSE IF token \in StderrWrite
                   THEN ExtractLoopFirstWins(toks, i + 2, IF freeerr THEN [r EXCEPT !.stderr_target = t, !.stderr_mode = "w"] ELSE r)
                   ELSE IF token \in StdoutAppend
                   THEN ExtractLoopFirstWins(toks, i + 2, IF freeout THEN [r EXCEPT !.stdout_target = t, !.stdout_mode = "a"] ELSE r)
                   ELSE ExtractLoopFirstWins(toks, i + 2, IF freeerr THEN [r EXCEPT !.stderr_target = t, !.stderr_mode = "a"] ELSE r)
         ELSE ExtractLoopFirstWins(toks, i + 1, [r EXCEPT !.command = Append(@, toks[i])])

RECURSIVE ExtractLoop(_, _, _)
\* the while loop of extract_redirections; r holds the five locals, i the index.
\* tokens[i+1] past the end raises IndexError.
ExtractLoop(toks, i, r) ==
    IF i > Len(toks) THEN r
    ELSE LET token == Cat(toks[i]) IN
         IF token \in Operators
         THEN IF i + 1 > Len(toks)
              THEN [r EXCEPT !.ok = FALSE]
              ELSE LET t == Cat(toks[i + 1]) IN
                   IF token \in StdoutWrite
                   THEN ExtractLoop(toks, i + 2, [r EXCEPT !.stdout_target = t, !.stdout_mode = "w"])
                   ELSE IF token \in StderrWrite
                   THEN ExtractLoop(toks, i + 2, [r EXCEPT !.stderr_target = t, !.stderr_mode = "w"])
                   ELSE IF token \in StdoutAppend
                   THEN ExtractLoop(toks, i + 2, [r EXCEPT !.stdout_target = t, !.stdout_mode = "a"])
                   ELSE ExtractLoop(toks, i + 2, [r EXCEPT !.stderr_target = t, !.stderr_mode = "a"])
         ELSE ExtractLoop(toks, i + 1, [r EXCEPT !.command = Append(@, toks[i])])

extract_redirections(toks) ==
    ExtractLoop(toks, 1, [ok |-> TRUE, command |-> <<>>,
                          stdout_target |-> None, stdout_mode |-> "w",
                          stderr_target |-> None, stderr_mode |-> "w"])

NotExtracted == [ok |-> FALSE, command |-> <<>>,
                 stdout_target |-> None, stdout_mode |-> "w",
                 stderr_target |-> None, stderr_mode |-> "w"]

----------------------------------------------------------------------------
(* The environment: files, directories, PATH *)

\* readline.set_history_length(1000): the line count history files are cut to
HistoryLength == 1000
\* n=100, the default number of entries `history` lists
DefaultCount == 100

\* paths under a directory that does not exist: open() raises FileNotFoundError
NoDirPaths == {"nodir/x"}
\* paths the process has no permission on: open() raises PermissionError
DeniedPaths == {"locked"}

\* directories os.chdir can enter
Directories == {"/", "/home", "/tmp"}
HomeDir == "/home"

\* os.environ["PATH"].split(os.pathsep); "/etc/hosts" is a file, not a directory
PathDirs == <<"/usr/bin", "/etc/hosts", "/bin">>
PathIsDir(d) == d \in {"/usr/bin", "/bin", "/opt/empty", "/root/bin"}
\* directories os.listdir may not read
DeniedDirs == {"/root/bin"}
\* regular files in the PATH directories, as <<directory, name, executable>>
PathFiles == {<<"/usr/bin", "ls", TRUE>>, <<"/bin", "ls", TRUE>>,
              <<"/usr/bin", "cat", FALSE>>, <<"/bin", "cat", TRUE>>,
              <<"/bin", "echo", TRUE>>, <<"/opt/empty", "README", FALSE>>,
              <<"/root/bin", "cat", TRUE>>}

RECURSIVE FindIn(_, _)
\* the for loop of find_executable over the directories ds
FindIn(ds, cmd) ==
    IF ds = <<>> THEN None
    ELSE IF ~PathIsDir(Head(ds)) THEN FindIn(Tail(ds), cmd)
    ELSE IF <<Head(ds), cmd, TRUE>> \in PathFiles THEN Head(ds) \o "/" \o cmd
    ELSE FindIn(Tail(ds), cmd)

find_executable(cmd) == FindIn(path_dirs, cmd)

builtin_names == {"exit", "echo", "type", "pwd", "cd", "history"}

\* the keys of builtin_commands in the order _init_builtins inserts them
builtin_order == <<"exit", "echo", "type", "pwd", "cd", "history">>

\* the characters of a command or file name
Letters(name) ==
    CASE name = "exit" -> <<"e", "x", "i", "t">>
      [] name = "echo" -> <<"e", "c", "h", "o">>
      [] name = "type" -> <<"t", "y", "p", "e">>
      [] name = "pwd" -> <<"p", "w", "d">>
      [] name = "cd" -> <<"c", "d">>
      [] name = "history" -> <<"h", "i", "s", "t", "o", "r", "y">>
      [] name = "ls" -> <<"l", "s">>
      [] name = "cat" -> <<"c", "a", "t">>
      [] name = "README" -> <<"R", "E", "A", "D", "M", "E">>

\* name.startswith(text), text given by its characters
StartsWith(name, text) ==
    /\ Len(text) <= Len(Letters(name))
    /\ SubSeq(Letters(name), 1, Len(text)) = text

\* _executables_cache: None at import, main.py:10, later the set assigned to it
NoCache == [none |-> TRUE, names |-> {}]

RECURSIVE ScanDirs(_, _)
\* the for loop of get_all_executables over the directories ds: PermissionError
\* of os.listdir is skipped, its other exceptions leave the loop and the function
ScanDirs(ds, found) ==
    IF ds = <<>> THEN [ok |-> TRUE, err |-> NoError, names |-> found]
    ELSE IF Head(ds) \in DeniedDirs THEN ScanDirs(Tail(ds), found)
    ELSE IF ~PathIsDir(Head(ds))
         THEN [ok |-> FALSE, err |-> "NotADirectoryError", names |-> {}]
         ELSE ScanDirs(Tail(ds), found \cup {f[2] : f \in {g \in PathFiles : g[1] = Head(ds) /\ g[3]}})

\* get_all_executables: the value returned (or the exception), the cache after
\* the call, and whether the directories were gone through
get_all_executables(cache, ds) ==
    IF ~cache.none /\ cache.names # {}
    THEN [ok |-> TRUE, err |-> NoError, names |-> cache.names, cache |-> cache, scanned |-> FALSE]
    ELSE LET s == ScanDirs(ds, {}) IN
         IF s.ok
         THEN [ok |-> TRUE, err |-> NoError, names |-> s.names,
               cache |-> [none |-> FALSE, names |-> s.names], scanned |-> TRUE]
         ELSE [ok |-> FALSE, err |-> s.err, names |-> {}, cache |-> cache, scanned |-> TRUE]

\* auto_completer(text, state) over the executables get_all_executables gave:
\* the values it may return, the order of a set's elements not being fixed
auto_completer(text, state, executables) ==
    LET builtin_options == SelectSeq(builtin_order, LAMBDA cmd : StartsWith(cmd, text))
        executable_options == {exe \in executables : StartsWith(exe, text)}
    IN IF state < Len(builtin_options) THEN {builtin_options[state + 1] \o " "}
       ELSE IF state < Len(builtin_options) + Cardinality(executable_options)
            THEN {exe \o " " : exe \in executable_options}
            ELSE {None}

\* the executable on the search path is preferred to the builtin of the same name
IsBuiltinUnlessOnPath(name) == name \in builtin_names /\ find_executable(name) = None

\* `commandArr[0] in builtin_commands`
IsBuiltin(name) == name \in builtin_names

\* truth value of an Optional[str]: None and "" are false
Truthy(t) == t # None /\ t # ""

\* the last n elements of s
LastN(s, n) == IF n >= Len(s) THEN s ELSE SubSeq(s, Len(s) - n + 1, Len(s))

SetFile(f, p, lines) == [q \in DOMAIN f \cup {p} |-> IF q = p THEN lines ELSE f[q]]

\* open() that truncates in append mode too
OpenFileTruncating(f, p, mode) ==
    IF p \in NoDirPaths THEN [ok |-> FALSE, err |-> "FileNotFoundError", fs |-> f]
    ELSE IF p \in DeniedPaths THEN [ok |-> FALSE, err |-> "PermissionError", fs |-> f]
    ELSE [ok |-> TRUE, err |-> NoError, fs |-> SetFile(f, p, <<>>)]

\* open(p, mode) for mode "w" or "a": the exception raised, or the file system
\* with p created or truncated
OpenFile(f, p, mode) ==
    IF p \in NoDirPaths THEN [ok |-> FALSE, err |-> "FileNotFoundError", fs |-> f]
    ELSE IF p \in DeniedPaths THEN [ok |-> FALSE, err |-> "PermissionError", fs |-> f]
    ELSE [ok |-> TRUE, err |-> NoError,
          fs |-> IF mode = "a" /\ p \in DOMAIN f THEN f ELSE SetFile(f, p, <<>>)]

\* file.write of the given lines at the end of p
WriteLines(f, p, lines) == SetFile(f, p, f[p] \o lines)

\* a missing history file read as an empty one
ReadHistoryFileMissingAsEmpty(f, p) ==
    IF p \in DeniedPaths THEN [ok |-> FALSE, err |-> "PermissionError", lines |-> <<>>]
    ELSE [ok |-> TRUE, err |-> NoError, lines |-> IF p \in DOMAIN f THEN SelectSeq(f[p], LAMBDA l : l # "") ELSE <<>>]

\* readline.read_history_file: the file's non-empty lines, or the exception
ReadHistoryFile(f, p) ==
    IF p \in DeniedPaths THEN [ok |-> FALSE, err |-> "PermissionError", lines |-> <<>>]
    ELSE IF p \notin DOMAIN f THEN [ok |-> FALSE, err |-> "FileNotFoundError", lines |-> <<>>]
    ELSE [ok |-> TRUE, err |-> NoError, lines |-> SelectSeq(f[p], LAMBDA l : l # "")]

\* readline.write_history_file: p rewritten with the log, then cut to HistoryLength lines
WriteHistoryFile(f, p, log) ==
    IF p \in NoDirPaths THEN [ok |-> FALSE, err |-> "FileNotFoundError", fs |-> f]
    ELSE IF p \in DeniedPaths THEN [ok |-> FALSE, err |-> "PermissionError", fs |-> f]
    ELSE [ok |-> TRUE, err |-> NoError, fs |-> SetFile(f, p, LastN(log, HistoryLength))]

\* readline.append_history_file(n, p): p must exist; the last n entries are added
\* and p is cut to HistoryLength lines
AppendHistoryFile(f, p, n, log) ==
    IF p \in DeniedPaths THEN [ok |-> FALSE, err |-> "PermissionError", fs |-> f]
    ELSE IF p \notin DOMAIN f THEN [ok |-> FALSE, err |-> "FileNotFoundError", fs |-> f]
    ELSE [ok |-> TRUE, err |-> NoError,
          fs |-> SetFile(f, p, LastN(f[p] \o LastN(log, n), HistoryLength))]

----------------------------------------------------------------------------
(* Builtin handlers.  A handler takes its argument string (as lexemes) and   *)
(* the process state st = [fs, history, lai, cwd] it runs in, and gives its  *)
(* effect: how it ended (res), what it printed on sys.stdout (out) and the   *)
(* state it left.                                                            *)

Effect(st) == [res |-> "ok", err |-> NoError, status |-> NoStatus, out |-> <<>>,
               fs |-> st.fs, history |-> st.history, lai |-> st.lai, cwd |-> st.cwd]

\* write_to_history_file, main.py:15
write_to_history_file(st) ==
    IF histfile = "" THEN Effect(st)
    ELSE LET total == Len(st.history)
             new_lines == total - initial_history_length
         IN IF new_lines > 0
            THEN LET a == AppendHistoryFile(st.fs, histfile, new_lines, st.history) IN
                 IF a.ok THEN [Effect(st) EXCEPT !.fs = a.fs]
                 ELSE [Effect(st) EXCEPT !.res = "raise", !.err = a.err]
            ELSE Effect(st)

exit_shell(input, st) ==
    LET w == write_to_history_file(st) IN
    IF w.res = "raise" THEN w
    ELSE IF IsDigit(Strip(input))
         THEN [w EXCEPT !.res = "exit", !.status = IntOf(Strip(input))]
         ELSE [w EXCEPT !.res = "exit", !.status = 0]

echo(input, st) == [Effect(st) EXCEPT !.out = <<Cat(input)>>]

get_cwd(input, st) == [Effect(st) EXCEPT !.out = <<st.cwd>>]

typeOf(input, st) ==
    LET name == Cat(input) IN
    IF IsBuiltin(name) THEN [Effect(st) EXCEPT !.out = <<name \o " is a shell builtin">>]
    ELSE IF find_executable(name) # None
         THEN [Effect(st) EXCEPT !.out = <<name \o " is " \o find_executable(name)>>]
         ELSE [Effect(st) EXCEPT !.out = <<name \o ": not found">>]

\* a failed cd that lands in the home directory
change_directory_home_on_failure(input, st) ==
    LET dir == IF Cat(input) = "~" THEN HomeDir ELSE Cat(input) IN
    IF dir \in Directories THEN [Effect(st) EXCEPT !.cwd = dir]
    ELSE [Effect(st) EXCEPT !.cwd = HomeDir,
                            !.out = <<"cd: " \o dir \o ": No such file or directory">>]

change_directory(input, st) ==
    LET dir == IF Cat(input) = "~" THEN HomeDir ELSE Cat(input) IN
    IF dir \in Directories THEN [Effect(st) EXCEPT !.cwd = dir]
    ELSE [Effect(st) EXCEPT !.out = <<"cd: " \o dir \o ": No such file or directory">>]

\* a listing that starts one entry too early
StartIndexOneEarlier(total, n) == IF total - n - 1 > 0 THEN total - n - 1 ELSE 0

\* startindex=max(total-n,0)
StartIndex(total, n) == IF total - n > 0 THEN total - n ELSE 0

\* the print loop of get_history over the indices from..to
Listing(log, from, to) ==
    [k \in 1..(to - from + 1) |->
        "    " \o ToString(from + k - 1) \o "  " \o log[from + k - 1]]

\* the items of the range without its first one
HistoryItemsSkippingFirst(log, from, to) == [k \in 1..(to - from) |-> log[from + k]]

\* readline.get_history_item(i) for i in range(from, to+1), in order
HistoryItems(log, from, to) == [k \in 1..(to - from + 1) |-> log[from + k - 1]]

\* the range starts at the first entry whatever was flushed before
AppendStartFromFirst(lai) == 1

\* first index the -a branch writes: range(last_appended_index+1, total+1)
AppendStart(lai) == lai + 1

\* an append that records one entry more than the log holds
history_append_past_end(file_path, st) ==
    LET total == Len(st.history)
        o == OpenFile(st.fs, file_path, "a")
    IN IF ~o.ok THEN [Effect(st) EXCEPT !.res = "raise", !.err = o.err]
       ELSE [Effect(st) EXCEPT
                !.fs = WriteLines(o.fs, file_path, HistoryItems(st.history, AppendStart(st.lai), total)),
                !.lai = total + 1]

\* the -a branch of get_history, main.py:159
history_append(file_path, st) ==
    LET total == Len(st.history)
        o == OpenFile(st.fs, file_path, "a")
    IN IF ~o.ok THEN [Effect(st) EXCEPT !.res = "raise", !.err = o.err]
       ELSE [Effect(st) EXCEPT
                !.fs = WriteLines(o.fs, file_path, HistoryItems(st.history, AppendStart(st.lai), total)),
                !.lai = total]

get_history(input, st) ==
    LET args == Split(Strip(input)) IN
    IF Len(args) = 2 /\ Cat(args[1]) = "-r"
    THEN LET r == ReadHistoryFile(st.fs, Cat(args[2])) IN
         IF r.ok THEN [Effect(st) EXCEPT !.history = @ \o r.lines]
         ELSE IF r.err = "FileNotFoundError"
              THEN [Effect(st) EXCEPT
                       !.out = <<"history: " \o Cat(args[2]) \o ": No such file or directory">>]
              ELSE [Effect(st) EXCEPT !.res = "raise", !.err = r.err]
    ELSE IF Len(args) = 2 /\ Cat(args[1]) = "-w"
    THEN LET w == WriteHistoryFile(st.fs, Cat(args[2]), st.history) IN
         IF w.ok THEN [Effect(st) EXCEPT !.fs = w.fs]
         ELSE [Effect(st) EXCEPT !.res = "raise", !.err = w.err]
    ELSE IF Len(args) = 2 /\ Cat(args[1]) = "-a"
    THEN history_append(Cat(args[2]), st)
    ELSE LET n == IF Len(args) = 1 /\ IsDigit(args[1]) THEN IntOf(args[1]) ELSE DefaultCount
             total == Len(st.history)
             startindex == StartIndex(total, n)
         IN [Effect(st) EXCEPT !.out = Listing(st.history, startindex + 1, total)]

\* builtin_commands[name](input), main.py:232
RunHandler(name, input, st) ==
    CASE name = "exit" -> exit_shell(input, st)
      [] name = "echo" -> echo(input, st)
      [] name = "type" -> typeOf(input, st)
      [] name = "pwd" -> get_cwd(input, st)
      [] name = "cd" -> change_directory(input, st)
      [] name = "history" -> get_history(input, st)

----------------------------------------------------------------------------
(* Input lines *)

RECURSIVE Words(_)
\* the line made of the given words with one blank between them
Words(ws) ==
    IF ws = <<>> THEN <<>>
    ELSE IF Len(ws) = 1 THEN ws
    ELSE <<Head(ws), SP>> \o Words(Tail(ws))

\* lines that go wrong before any command is chosen
BrokenLines ==
    { <<>>, <<SP>>, <<"echo", SP, SQ, "hi">>,
      Words(<<"echo", "hi", ">">>), Words(<<"ls", "2>>">>), Words(<<">", "f">>) }

\* one line for each way of the dispatcher
DispatchLines ==
    { Words(<<"echo", "hi">>), Words(<<"ls">>), Words(<<"cat", "f">>),
      Words(<<"nosuch">>), Words(<<"nosuch", ">", "nodir/x">>),
      <<"echo", SP, SQ, "a", SP, "b", SQ>>,
      Words(<<"pwd">>), Words(<<"cd", "/tmp">>), Words(<<"cd", "/nope">>),
      Words(<<"type", "echo">>), Words(<<"type", "cat">>), Words(<<"exit", "2">>) }

\* lines with redirections that work and that fail
RedirectedLines ==
    { Words(<<"echo", "hi", ">", "f">>), Words(<<">", "f", "echo", "hi">>),
      Words(<<"echo", "hi", "2>", "g">>), Words(<<"echo", "hi", ">>", "f", "2>>", "g">>),
      Words(<<"echo", "hi", ">", "nodir/x">>), Words(<<"echo", "hi", ">", "f", "2>", "locked">>),
      Words(<<"pwd", "2>", "nodir/x">>),
      Words(<<"ls", ">", "f">>), Words(<<"ls", "2>", "locked">>),
      Words(<<"ls", ">", "f", "2>", "g">>), Words(<<"ls", ">", "f", "2>", "nodir/x">>),
      Words(<<"history", "-w", "nodir/x", ">", "f">>),
      Words(<<"history", "-r", "locked", "2>", "g">>),
      Words(<<"exit", ">", "f">>) }

\* lines of the history builtin
HistoryLines ==
    { Words(<<"history">>), Words(<<"history", "1">>),
      Words(<<"history", "-a", "f">>), Words(<<"history", "-a", "h">>),
      Words(<<"history", "-a", "nodir/x">>),
      Words(<<"history", "-w", "f">>), Words(<<"history", "-w", "locked">>),
      Words(<<"history", "-r", "f">>), Words(<<"history", "-r", "g">>),
      Words(<<"history", "-r", "nodir/x">>), Words(<<"history", "-r", "locked">>),
      Words(<<"exit">>) }

\* builtins writing to one file f in both modes
AppendLines ==
    { Words(<<"echo", "foo", ">>", "f">>), Words(<<"echo", "bar", ">>", "f">>),
      Words(<<"echo", "foo", ">", "f">>), Words(<<"echo", "bar", "1>", "f">>),
      Words(<<"pwd", "1>>", "f">>), Words(<<"history", "1", ">>", "f">>),
      Words(<<"echo", "bar", ">>", "f", "2>", "f">>),
      Words(<<"history", "-w", "f", ">", "f">>),
      Words(<<"history", "-a", "f", ">>", "f">>) }

----------------------------------------------------------------------------
(* The interpreter *)

\* the file systems a run may start in
InitialFiles ==
    { [p \in {} |-> <<>>],
      [p \in {"f", "h"} |-> IF p = "f" THEN <<"old">> ELSE <<"ls">>] }

\* main() up to the read loop: _init_builtins, readline_config, load_history
\* followed by the entering of the given commands, none of them dispatched to
\* anything that changes the state
Started(ds, hf, files, entered) ==
    /\ histfile = hf
    /\ fs = files
    /\ initial_history_length = IF histfile # "" /\ histfile \in DOMAIN fs
                                THEN Len(ReadHistoryFile(fs, histfile).lines) ELSE 0
    /\ history = (IF histfile # "" /\ histfile \in DOMAIN fs
                  THEN ReadHistoryFile(fs, histfile).lines ELSE <<>>) \o entered
    /\ last_appended_index = 0
    /\ cwd = "/"
    /\ sys_stdout = Console
    /\ sys_stderr = Console
    /\ open_files = {}
    /\ opened = <<>>
    /\ console = <<>>
    /\ invoked = <<>>
    /\ spawned = <<>>
    /\ exit_status = NoStatus
    /\ error = NoError
    /\ command = <<>>
    /\ tokens = <<>>
    /\ extracted = NotExtracted
    /\ nread = 0
    /\ path_dirs = ds
    /\ executables_cache = NoCache
    /\ scans = 0
    /\ completion = None
    /\ ncomplete = 0
    /\ pc = "prompt"

\* the state at the first prompt
Start(hf, files) == Started(PathDirs, hf, files, <<>>)

\* the shell started with HISTFILE unset or naming h, over each initial file system
Init == \E hf \in {"", "h"}, files \in InitialFiles : Start(hf, files)

\* the line is never added to the log
AddHistoryNever(log, line) == log

\* `if command.strip(): readline.add_history(command)`
AddHistory(log, line) == IF Strip(line) # <<>> THEN Append(log, Cat(line)) ELSE log

\* the first two statements of the loop body: input("$ ") and add_history
ReadLine(line) ==
    /\ pc = "prompt"
    /\ nread' = nread + 1
    /\ command' = line
    /\ history' = AddHistory(history, line)
    /\ tokens' = <<>>
    /\ extracted' = NotExtracted
    /\ opened' = <<>>
    /\ console' = <<>>
    /\ invoked' = <<>>
    /\ spawned' = <<>>
    /\ pc' = "handle"
    /\ UNCHANGED <<last_appended_index, initial_history_length, histfile, fs, cwd,
                   sys_stdout, sys_stderr, open_files, exit_status, error,
                   path_dirs, executables_cache, scans, completion, ncomplete>>

Parsed == parse_input(command)
Extracted == extract_redirections(Parsed.tokens)
\* commandArr[0], when there is one
CommandName == Cat(Extracted.command[1])

\* what the interpreter prints when an exception reaches the top level
Traceback(stream, err) == IF stream = Console THEN <<"Traceback: " \o err>> ELSE <<>>

\* shlex raises ValueError in parse_input (main.py:104)
ParseError ==
    /\ pc = "handle"
    /\ ~Parsed.ok
    /\ pc' = "crashed"
    /\ error' = "ValueError"
    /\ console' = console \o Traceback(sys_stderr, "ValueError")
    /\ UNCHANGED <<command, tokens, extracted, history, last_appended_index,
                   initial_history_length, histfile, fs, cwd, sys_stdout, sys_stderr,
                   open_files, opened, invoked, spawned, exit_status, nread, path_dirs, executables_cache, scans, completion, ncomplete>>

\* tokens[i+1] raises IndexError in extract_redirections (main.py:118-130)
DanglingRedirection ==
    /\ pc = "handle"
    /\ Parsed.ok
    /\ ~Extracted.ok
    /\ tokens' = Parsed.tokens
    /\ pc' = "crashed"
    /\ error' = "IndexError"
    /\ console' = console \o Traceback(sys_stderr, "IndexError")
    /\ UNCHANGED <<command, extracted, history, last_appended_index,
                   initial_history_length, histfile, fs, cwd, sys_stdout, sys_stderr,
                   open_files, opened, invoked, spawned, exit_status, nread, path_dirs, executables_cache, scans, completion, ncomplete>>

\* commandArr[0] raises IndexError on an empty command (main.py:184)
EmptyCommand ==
    /\ pc = "handle"
    /\ Parsed.ok
    /\ Extracted.ok
    /\ Extracted.command = <<>>
    /\ tokens' = Parsed.tokens
    /\ extracted' = Extracted
    /\ pc' = "crashed"
    /\ error' = "IndexError"
    /\ console' = console \o Traceback(sys_stderr, "IndexError")
    /\ UNCHANGED <<command, history, last_appended_index,
                   initial_history_length, histfile, fs, cwd, sys_stdout, sys_stderr,
                   open_files, opened, invoked, spawned, exit_status, nread, path_dirs, executables_cache, scans, completion, ncomplete>>

\* the `with open(...)` header of a branch of handle_command: the stdout target
\* is opened first, then the stderr target; a target that is None or "" is not
\* opened.  Gives the exception or the file system with the targets opened.
OpenTargets(f, e) ==
    LET so == Truthy(e.stdout_target)
        se == Truthy(e.stderr_target)
        o1 == IF so THEN OpenFile(f, e.stdout_target, e.stdout_mode)
              ELSE [ok |-> TRUE, err |-> NoError, fs |-> f]
        o2 == IF se /\ o1.ok THEN OpenFile(o1.fs, e.stderr_target, e.stderr_mode)
              ELSE o1
    IN [ok |-> o2.ok, err |-> o2.err, fs |-> o2.fs,
        calls |-> (IF so THEN <<e.stdout_target>> ELSE <<>>)
                  \o (IF se /\ o1.ok THEN <<e.stderr_target>> ELSE <<>>),
        held |-> (IF so /\ o1.ok THEN {e.stdout_target} ELSE {})
                 \cup (IF se /\ o1.ok /\ o2.ok THEN {e.stderr_target} ELSE {})]

\* the file objects are opened without `with` and nothing closes them
WithExitLeaking(open, held) == open \cup held

\* the end of a `with open(...) as ...` block, left normally or by an exception:
\* the file objects it holds are closed
WithExit(open, held) == open \ held

\* sys.stdout / sys.stderr while the handler runs
StreamDuring(old, target) == IF Truthy(target) THEN target ELSE old

\* sys.stdout / sys.stderr after the handler: the assignments
\* sys.stdout=old_stdout and sys.stderr=old_stderr follow the call, so they are
\* reached only when the handler returns
StreamAfter(old, target, res) == IF res = "ok" THEN old ELSE StreamDuring(old, target)

\* the builtin branch of handle_command (main.py:184-209)
RunBuiltin ==
    /\ pc = "handle"
    /\ Parsed.ok
    /\ Extracted.ok
    /\ Extracted.command # <<>>
    /\ IsBuiltin(CommandName)
    /\ tokens' = Parsed.tokens
    /\ extracted' = Extracted
    /\ LET e == Extracted
           o == OpenTargets(fs, e)
           st == [fs |-> o.fs, history |-> history, lai |-> last_appended_index, cwd |-> cwd]
           eff == RunHandler(CommandName, Join(Tail(e.command)), st)
           out == StreamDuring(sys_stdout, e.stdout_target)
           err == StreamAfter(sys_stderr, e.stderr_target, eff.res)
       IN /\ opened' = o.calls
          /\ open_files' = WithExit(open_files \cup o.held, o.held)
          /\ IF ~o.ok
             THEN /\ pc' = "crashed"
                  /\ error' = o.err
                  /\ fs' = o.fs
                  /\ console' = console \o Traceback(sys_stderr, o.err)
                  /\ UNCHANGED <<history, last_appended_index, cwd, sys_stdout, sys_stderr,
                                 invoked, exit_status>>
             ELSE /\ invoked' = Append(invoked, CommandName)
                  /\ fs' = IF out = Console THEN eff.fs ELSE WriteLines(eff.fs, out, eff.out)
                  /\ history' = eff.history
                  /\ last_appended_index' = eff.lai
                  /\ cwd' = eff.cwd
                  /\ sys_stdout' = StreamAfter(sys_stdout, e.stdout_target, eff.res)
                  /\ sys_stderr' = err
                  /\ exit_status' = eff.status
                  /\ error' = eff.err
                  /\ pc' = CASE eff.res = "ok" -> "prompt"
                             [] eff.res = "exit" -> "exited"
                             [] eff.res = "raise" -> "crashed"
                  /\ console' = console \o (IF out = Console THEN eff.out ELSE <<>>)
                                        \o (IF eff.res = "raise" THEN Traceback(err, eff.err)
                                            ELSE <<>>)
    /\ UNCHANGED <<command, initial_history_length, histfile, spawned, nread, path_dirs, executables_cache, scans, completion, ncomplete>>

\* the external branch of handle_command (main.py:213-227); subprocess.run
\* either runs the child to its end or raises OSError
RunExternal ==
    /\ pc = "handle"
    /\ Parsed.ok
    /\ Extracted.ok
    /\ Extracted.command # <<>>
    /\ ~IsBuiltin(CommandName)
    /\ find_executable(CommandName) # None
    /\ tokens' = Parsed.tokens
    /\ extracted' = Extracted
    /\ LET e == Extracted
           o == OpenTargets(fs, e)
       IN /\ opened' = o.calls
          /\ open_files' = WithExit(open_files \cup o.held, o.held)
          /\ fs' = o.fs
          /\ IF ~o.ok
             THEN /\ pc' = "crashed"
                  /\ error' = o.err
                  /\ console' = console \o Traceback(sys_stderr, o.err)
                  /\ UNCHANGED spawned
             ELSE /\ spawned' = Append(spawned,
                                  [argv |-> [i \in 1..Len(e.command) |-> Cat(e.command[i])],
                                   executable |-> find_executable(CommandName),
                                   stdout |-> StreamDuring(Console, e.stdout_target),
                                   stderr |-> StreamDuring(Console, e.stderr_target)])
                  /\ \E started \in BOOLEAN :
                        IF started
                        THEN pc' = "prompt" /\ UNCHANGED <<error, console>>
                        ELSE /\ pc' = "crashed"
                             /\ error' = "OSError"
                             /\ console' = console \o Traceback(sys_stderr, "OSError")
    /\ UNCHANGED <<command, history, last_appended_index, initial_history_length, histfile,
                   cwd, sys_stdout, sys_stderr, invoked, exit_status, nread, path_dirs, executables_cache, scans, completion, ncomplete>>

\* the last statement of handle_command (main.py:230)
CommandNotFound ==
    /\ pc = "handle"
    /\ Parsed.ok
    /\ Extracted.ok
    /\ Extracted.command # <<>>
    /\ ~IsBuiltin(CommandName)
    /\ find_executable(CommandName) = None
    /\ tokens' = Parsed.tokens
    /\ extracted' = Extracted
    /\ console' = console \o <<CommandName \o ": command not found">>
    /\ pc' = "prompt"
    /\ UNCHANGED <<command, history, last_appended_index, initial_history_length, histfile,
                   fs, cwd, sys_stdout, sys_stderr, open_files, opened, invoked, spawned,
                   exit_status, error, nread, path_dirs, executables_cache, scans, completion, ncomplete>>

\* handle_command(command)
HandleCommand ==
    \/ ParseError
    \/ DanglingRedirection
    \/ EmptyCommand
    \/ RunBuiltin
    \/ RunExternal
    \/ CommandNotFound

\* the read loop takes a line
ReadInput ==
    \E line \in BrokenLines \cup DispatchLines \cup RedirectedLines :
        nread < MaxLines /\ ReadLine(line)

Next ==
    \/ ReadInput
    \/ HandleCommand

Spec == Init /\ [][Next]_vars

ReadHistoryInput ==
    \E line \in HistoryLines :
        nread < MaxHistoryLines /\ ReadLine(line)

NextHistory ==
    \/ ReadHistoryInput
    \/ RunBuiltin

\* runs of history commands
SpecHistory == Init /\ [][NextHistory]_vars

ReadAppendInput ==
    \E line \in AppendLines :
        nread < MaxAppendLines /\ ReadLine(line)

NextAppend ==
    \/ ReadAppendInput
    \/ RunBuiltin

\* runs of builtins redirected to the file f
SpecAppend == Init /\ [][NextAppend]_vars

----------------------------------------------------------------------------
(* extract_redirections on its own *)

\* the tokens extract_redirections is tried on
ExtractAlphabet ==
    { <<"echo">>, <<"hi">>, <<"out.txt">>,
      <<">">>, <<"1>">>, <<">>">>, <<"1>>">>, <<"2>">>, <<"2>>">> }

TokenLists == UNION { [1..n -> ExtractAlphabet] : n \in 0..MaxTokens }

InitExtract ==
    /\ tokens \in TokenLists
    /\ pc = "extract"
    /\ extracted = NotExtracted
    /\ command = <<>>
    /\ history = <<>>
    /\ initial_history_length = 0
    /\ last_appended_index = 0
    /\ histfile = ""
    /\ fs = [p \in {} |-> <<>>]
    /\ cwd = "/"
    /\ sys_stdout = Console
    /\ sys_stderr = Console
    /\ open_files = {}
    /\ opened = <<>>
    /\ console = <<>>
    /\ invoked = <<>>
    /\ spawned = <<>>
    /\ exit_status = NoStatus
    /\ error = NoError
    /\ nread = 0
    /\ path_dirs = PathDirs
    /\ executables_cache = NoCache
    /\ scans = 0
    /\ completion = None
    /\ ncomplete = 0

\* one call of extract_redirections(tokens)
Extract ==
    /\ pc = "extract"
    /\ extracted' = extract_redirections(tokens)
    /\ pc' = "extracted"
    /\ UNCHANGED <<command, tokens, history, last_appended_index, initial_history_length,
                   histfile, fs, cwd, sys_stdout, sys_stderr, open_files, opened, console,
                   invoked, spawned, exit_status, error, nread, path_dirs, executables_cache, scans, completion, ncomplete>>

NextExtract == Extract

SpecExtract == InitExtract /\ [][NextExtract]_vars

----------------------------------------------------------------------------
(* Vocabulary of the properties: what the line under dispatch is *)

\* the line parsed and left a command of at least one token
Dispatchable == Parsed.ok /\ Extracted.ok /\ Extracted.command # <<>>

\* the words of the argument string of the command, as the history builtin splits it
Args == Split(Strip(Join(Tail(Extracted.command))))

\* the command is found on the search path
Resolvable == find_executable(CommandName) # None

\* the line redirects stdout or stderr
Redirected == Truthy(Extracted.stdout_target) \/ Truthy(Extracted.stderr_target)

\* a redirection target of the line cannot be opened
TargetFails == ~OpenTargets(fs, Extracted).ok

\* the line is `history <flag> <path>` for one of the given flags
HistoryFileCommand(flags) ==
    /\ Dispatchable
    /\ CommandName = "history"
    /\ Len(Args) = 2
    /\ Cat(Args[1]) \in flags

\* the content of the file p, empty when p does not exist
Content(f, p) == IF p \in DOMAIN f THEN f[p] ELSE <<>>

\* number of times x occurs in the sequence s
Count(x, s) == Cardinality({i \in 1..Len(s) : s[i] = x})

\* the line, read as input, parses to no command token at all
NoTokens(line) ==
    LET p == parse_input(line) IN
    p.ok /\ extract_redirections(p.tokens).ok /\ extract_redirections(p.tokens).command = <<>>

----------------------------------------------------------------------------
(* C1: a line that cannot be parsed (a redirection operator with no target   *)
(* after it, or an unterminated quote) is reported, runs no handler, spawns  *)
(* nothing, and the read loop goes on to the next prompt.                    *)
C1_UnparsableLineRecovered ==
    [][(pc = "handle" /\ (~Parsed.ok \/ ~Extracted.ok))
        => (pc' = "prompt" /\ console' # <<>> /\ invoked' = <<>> /\ spawned' = <<>>)]_vars

(* C2: an empty or whitespace-only line, and any line whose command is empty *)
(* once the redirections are taken out, is a no-op: no handler, no process,  *)
(* the history log unchanged, and the read loop goes on.                     *)
C2_BlankLineIsNoOp ==
    [][(pc = "handle" /\ NoTokens(command))
        => (pc' = "prompt" /\ history' = history /\ invoked' = <<>> /\ spawned' = <<>>)]_vars

(* C3 as stated: for every dispatched command of at least one token exactly *)
(* one of three things happens, by priority: a builtin name runs its handler *)
(* and spawns nothing, even when an executable of that name is on the path;  *)
(* else a resolvable name is spawned; else `<name>: command not found` is    *)
(* printed, nothing is spawned and control is back at the prompt.            *)
NotFoundMessage == CommandName \o ": command not found"

BuiltinOutcome ==
    /\ invoked' = <<CommandName>>
    /\ spawned' = <<>>
    /\ \A i \in 1..Len(console') : console'[i] # NotFoundMessage

SpawnOutcome ==
    /\ invoked' = <<>>
    /\ Len(spawned') = 1
    /\ spawned'[1].executable = find_executable(CommandName)
    /\ \A i \in 1..Len(console') : console'[i] # NotFoundMessage

NotFoundOutcome ==
    /\ invoked' = <<>>
    /\ spawned' = <<>>
    /\ console' = <<NotFoundMessage>>
    /\ pc' = "prompt"

NothingRan == invoked' = <<>> /\ spawned' = <<>>

C3_DispatchPriorityAlways ==
    [][(pc = "handle" /\ Dispatchable)
        => IF CommandName \in builtin_names THEN BuiltinOutcome
           ELSE IF Resolvable THEN SpawnOutcome
           ELSE NotFoundOutcome]_vars

(* C3 amended: the same three outcomes in the same priority, except that a   *)
(* builtin or a resolvable command whose redirection target cannot be opened *)
(* neither runs nor is spawned.                                              *)
C3_DispatchPriority ==
    [][(pc = "handle" /\ Dispatchable)
        => IF CommandName \in builtin_names
           THEN IF TargetFails THEN NothingRan ELSE BuiltinOutcome
           ELSE IF Resolvable
           THEN IF TargetFails THEN NothingRan ELSE SpawnOutcome
           ELSE NotFoundOutcome]_vars

\* the builtin echo ran although /bin/echo is on the search path
C3_BuiltinShadowsExecutable ==
    /\ pc = "prompt"
    /\ invoked = <<"echo">>
    /\ spawned = <<>>
    /\ find_executable("echo") = "/bin/echo"

(* C6: after a builtin called with a stdout and/or stderr redirection,       *)
(* sys.stdout and sys.stderr are the streams they were before the command,   *)
(* however the handler finished, exit apart.                                 *)
C6_StreamsRestored ==
    [][(pc = "handle" /\ Dispatchable /\ CommandName \in builtin_names /\ Redirected
        /\ invoked' # <<>> /\ pc' # "exited")
        => (sys_stdout' = sys_stdout /\ sys_stderr' = sys_stderr)]_vars

(* C7: when a redirection target cannot be opened, the failure is shown, the *)
(* builtin or external command does not run, and the interpreter is back at  *)
(* the prompt.                                                               *)
C7_OpenFailureRecovered ==
    [][(pc = "handle" /\ Dispatchable /\ (CommandName \in builtin_names \/ Resolvable)
        /\ TargetFails)
        => (pc' = "prompt" /\ console' # <<>> /\ invoked' = <<>> /\ spawned' = <<>>)]_vars

(* C8: a failure to read or write the file of `history -r|-w|-a <path>` is   *)
(* answered with a message and the read loop goes on.                        *)
C8_HistoryFileErrorRecovered ==
    [][(pc = "handle" /\ HistoryFileCommand({"-r", "-w", "-a"}) /\ ~TargetFails)
        => pc' = "prompt"]_vars

(* C4: `history -a <path>` adds to the file exactly the entries with index   *)
(* in (last_appended_index, current length], in order, and sets              *)
(* last_appended_index to the current length; so a second `history -a        *)
(* <path>` on the log as it stands adds no line and leaves the file and the  *)
(* watermark as they are.  Stated for a path that can be opened and that no  *)
(* redirection of the same line also names.                                  *)
C4_IncrementalAppend ==
    [][(/\ pc = "handle"
        /\ HistoryFileCommand({"-a"})
        /\ ~TargetFails
        /\ Cat(Args[2]) \notin {Extracted.stdout_target, Extracted.stderr_target}
        /\ OpenFile(fs, Cat(Args[2]), "a").ok)
        => LET path == Cat(Args[2])
               again == get_history(Args[1] \o <<SP>> \o Args[2],
                                    [fs |-> fs', history |-> history',
                                     lai |-> last_appended_index', cwd |-> cwd'])
           IN /\ path \in DOMAIN fs'
              /\ fs'[path] = Content(fs, path)
                               \o SubSeq(history, last_appended_index + 1, Len(history))
              /\ last_appended_index' = Len(history)
              /\ history' = history
              /\ again.fs = fs'
              /\ again.lai = last_appended_index']_vars

\* a second `history -a f` has added only the one entry entered since the first
C4_SecondAppendAddsOnlyNew ==
    /\ pc = "prompt"
    /\ history = <<"history -a f", "history -a f">>
    /\ "f" \in DOMAIN fs
    /\ fs["f"] = history
    /\ last_appended_index = 2

(* C5: after `history -a` on the configured history file and then `exit`, no *)
(* entry entered during the session is in the file more often than it was    *)
(* entered: the final flush adds only what no explicit -a has flushed.       *)
C5_NoEntryFlushedTwice ==
    (pc = "exited" /\ histfile # "" /\ histfile \in DOMAIN fs)
        => \A k \in (initial_history_length + 1)..Len(history) :
              Count(history[k], fs[histfile]) <= Count(history[k], history)

(* C9: when every redirection operator has a target after it, extraction     *)
(* takes out each operator with the one token after it and returns the other *)
(* tokens in their order, wherever the operators stand; `echo hi > out.txt`  *)
(* and `> out.txt echo hi` both give [echo, hi], stdout to out.txt,          *)
(* truncating.                                                               *)
RECURSIVE IsOperatorAt(_, _)
\* position i holds an operator that is not itself the target of the operator before it
IsOperatorAt(toks, i) ==
    /\ i \in 1..Len(toks)
    /\ Cat(toks[i]) \in Operators
    /\ ~IsOperatorAt(toks, i - 1)

IsTargetAt(toks, i) == IsOperatorAt(toks, i - 1)

EveryOperatorHasTarget(toks) == \A i \in 1..Len(toks) : IsOperatorAt(toks, i) => i < Len(toks)

\* the tokens that are neither an operator nor its target, in their order
Residual(toks) ==
    LET keep == {i \in 1..Len(toks) : ~IsOperatorAt(toks, i) /\ ~IsTargetAt(toks, i)}
        nth(k) == CHOOSE i \in keep : Cardinality({j \in keep : j <= i}) = k
    IN [k \in 1..Cardinality(keep) |-> toks[nth(k)]]

C9_ExtractionKeepsOrder ==
    (pc = "extracted" /\ EveryOperatorHasTarget(tokens))
        => /\ extracted.ok
           /\ extracted.command = Residual(tokens)
           /\ tokens \in {<<<<"echo">>, <<"hi">>, <<">">>, <<"out.txt">>>>,
                          <<<<">">>, <<"out.txt">>, <<"echo">>, <<"hi">>>>}
                => /\ extracted.command = <<<<"echo">>, <<"hi">>>>
                   /\ extracted.stdout_target = "out.txt"
                   /\ extracted.stdout_mode = "w"
                   /\ extracted.stderr_target = None

\* the redirection came first on the line and the command after it came out whole
C9_LeadingRedirection ==
    /\ pc = "extracted"
    /\ tokens = <<<<">">>, <<"out.txt">>, <<"echo">>, <<"hi">>>>
    /\ extracted.ok
    /\ extracted.command = <<<<"echo">>, <<"hi">>>>
    /\ extracted.stdout_target = "out.txt"

(* C10 as stated: of builtins whose stdout goes to one file f, a command     *)
(* with `>>` or `1>>` keeps what f held and adds its output at the end, a    *)
(* command with `>` or `1>` leaves f holding its output alone, and f is      *)
(* created when absent; `echo foo >> f` then `echo bar >> f` leaves foo, bar.*)

\* a builtin is about to run with its stdout sent to a file that opens
BuiltinToFile ==
    /\ pc = "handle"
    /\ Dispatchable
    /\ CommandName \in builtin_names
    /\ Truthy(Extracted.stdout_target)
    /\ ~TargetFails

\* what the builtin prints on its stdout
OutputOfLine ==
    RunHandler(CommandName, Join(Tail(Extracted.command)),
               [fs |-> OpenTargets(fs, Extracted).fs, history |-> history,
                lai |-> last_appended_index, cwd |-> cwd]).out

\* the file f holds what the mode of the redirection asks for
FileAsRedirected ==
    LET f == Extracted.stdout_target IN
    /\ f \in DOMAIN fs'
    /\ fs'[f] = IF Extracted.stdout_mode = "a" THEN Content(fs, f) \o OutputOfLine
                ELSE OutputOfLine

\* the line reaches f by a second way: its stderr, or a history file operation
WritesTargetOtherwise ==
    LET f == Extracted.stdout_target IN
    \/ Extracted.stderr_target = f
    \/ HistoryFileCommand({"-w", "-a"}) /\ Cat(Args[2]) = f
    \/ CommandName = "exit" /\ histfile = f

C10_RedirectModesAlways == [][BuiltinToFile => FileAsRedirected]_vars

(* C10 amended: the same, for commands that reach f through their stdout     *)
(* redirection only - not also through a stderr redirection to f, nor        *)
(* through `history -w f`, `history -a f` or the flush of exit to f.         *)
C10_RedirectModes ==
    [][(BuiltinToFile /\ ~WritesTargetOtherwise) => FileAsRedirected]_vars

\* f did not exist, and two appending echos left their two lines in it
C10_AppendAccumulates ==
    /\ pc = "prompt"
    /\ history = <<"echo foo >> f", "echo bar >> f">>
    /\ "f" \in DOMAIN fs
    /\ fs["f"] = <<"foo", "bar">>

----------------------------------------------------------------------------
(* Runs of cd and pwd *)

CdLines ==
    { Words(<<"cd", "/tmp">>), Words(<<"cd", "/nope">>), Words(<<"cd", "~">>),
      Words(<<"cd", "/nope", ">", "f">>), Words(<<"cd">>), Words(<<"pwd">>) }

ReadCdInput ==
    \E line \in CdLines :
        nread < MaxCdLines /\ ReadLine(line)

NextCd ==
    \/ ReadCdInput
    \/ RunBuiltin

SpecCd == Init /\ [][NextCd]_vars

\* the builtin under dispatch is the given one and its redirection targets open
BuiltinRuns(name) ==
    /\ pc = "handle"
    /\ Dispatchable
    /\ CommandName = name
    /\ ~TargetFails

\* the argument string the handler is given
ArgumentString == Cat(Join(Tail(Extracted.command)))

\* the step printed exactly these lines on the stdout of the command
PrintedOut(lines) ==
    LET t == Extracted.stdout_target IN
    IF Truthy(t)
    THEN t \in DOMAIN fs' /\ LastN(fs'[t], Len(lines)) = lines /\ console' = <<>>
    ELSE console' = lines

(* C11: `cd <path>` with a path that cannot be entered leaves the working    *)
(* directory as it was, prints `cd: <path>: No such file or directory`, does *)
(* not end the interpreter, and a `pwd` after it prints the directory that   *)
(* was current before the failed cd.                                         *)
C11_FailedCdKeepsDirectory ==
    [][/\ (BuiltinRuns("cd") /\ ArgumentString \notin Directories \cup {"~"})
            => /\ cwd' = cwd
               /\ pc' = "prompt"
               /\ PrintedOut(<<"cd: " \o ArgumentString \o ": No such file or directory">>)
       /\ BuiltinRuns("pwd") => (cwd' = cwd /\ pc' = "prompt" /\ PrintedOut(<<cwd>>))]_vars

\* pwd after a failed cd printed the directory entered before it
C11_PwdAfterFailedCd ==
    /\ pc = "prompt"
    /\ history = <<"cd /tmp", "cd /nope", "pwd">>
    /\ cwd = "/tmp"
    /\ console = <<"/tmp">>

----------------------------------------------------------------------------
(* Runs of history -r over files with and without empty lines *)

ReadLines ==
    { Words(<<"echo", ">>", "f">>), Words(<<"echo", "hi", ">>", "f">>),
      Words(<<"history", "-r", "f">>), Words(<<"history", "-r", "g">>),
      Words(<<"history", "-r", "nodir/x">>) }

ReadReadInput ==
    \E line \in ReadLines :
        nread < MaxReadLines /\ ReadLine(line)

NextRead ==
    \/ ReadReadInput
    \/ RunBuiltin

SpecRead == Init /\ [][NextRead]_vars

\* the step runs `history -r <path>`, without redirection, on a path that may be read
ReadStep ==
    /\ pc = "handle"
    /\ HistoryFileCommand({"-r"})
    /\ ~Redirected
    /\ Cat(Args[2]) \notin DeniedPaths

\* what `history -r` does when the path names no file
MissingFileReported ==
    LET p == Cat(Args[2]) IN
    (ReadStep /\ p \notin DOMAIN fs)
        => /\ console' = <<"history: " \o p \o ": No such file or directory">>
           /\ history' = history
           /\ last_appended_index' = last_appended_index
           /\ initial_history_length' = initial_history_length
           /\ fs' = fs
           /\ pc' = "prompt"

(* C12 as stated: `history -r <path>` on an existing file appends the lines  *)
(* of the file, in file order, after the entries already in the log and      *)
(* removes or replaces none; on a missing file it prints `history: <path>:   *)
(* No such file or directory` and changes nothing else.                      *)
C12_ReadAppendsEveryLine ==
    [][/\ (ReadStep /\ Cat(Args[2]) \in DOMAIN fs)
            => (history' = history \o fs[Cat(Args[2])] /\ pc' = "prompt")
       /\ MissingFileReported]_vars

(* C12, amended: `history -r <path>` on an existing file appends the         *)
(* non-empty lines of the file, in file order, after the entries already in  *)
(* the log and removes or replaces none; on a missing file it prints the     *)
(* message and changes neither the log, nor last_appended_index, nor         *)
(* initial_history_length, nor any file.                                     *)
C12_ReadAppendsNonEmptyLines ==
    [][/\ (ReadStep /\ Cat(Args[2]) \in DOMAIN fs)
            => /\ history' = history \o SelectSeq(fs[Cat(Args[2])], LAMBDA l : l # "")
               /\ last_appended_index' = last_appended_index
               /\ initial_history_length' = initial_history_length
               /\ fs' = fs
               /\ pc' = "prompt"
       /\ MissingFileReported]_vars

\* a file with an empty line was read after two entries: only `old` was added
C12_ReadSkippedEmptyLine ==
    /\ pc = "prompt"
    /\ "f" \in DOMAIN fs
    /\ fs["f"] = <<"old", "">>
    /\ history = <<"echo >> f", "history -r f", "old">>

----------------------------------------------------------------------------
(* Runs of the history listing *)

\* a history file longer than the default count of the listing
LongLog == [i \in 1..(DefaultCount + 1) |-> "ls"]

ListLines ==
    { Words(<<"echo", "a">>), Words(<<"history">>), Words(<<"history", "0">>),
      Words(<<"history", "1">>), Words(<<"history", "2">>) }

\* started with no history, or with HISTFILE naming a file of DefaultCount + 1 lines
InitList ==
    \/ Start("", [p \in {} |-> <<>>])
    \/ Start("h", [p \in {"h"} |-> LongLog])

ReadListInput ==
    \E line \in ListLines :
        nread < MaxListLines /\ ReadLine(line)

NextList ==
    \/ ReadListInput
    \/ RunBuiltin

SpecList == InitList /\ [][NextList]_vars

\* the step runs `history` or `history N` with its output on the console
ListStep ==
    /\ BuiltinRuns("history")
    /\ ~Redirected
    /\ (Args = <<>> \/ (Len(Args) = 1 /\ IsDigit(Args[1])))

\* the count the listing is asked for
ListCount == IF Args = <<>> THEN DefaultCount ELSE IntOf(Args[1])

C13_DefaultListedHundred ==
    /\ pc = "prompt"
    /\ Len(history) = DefaultCount + 2
    /\ Len(console) = DefaultCount
    /\ console[1] = "    3  ls"
    /\ console[DefaultCount] = "    102  history"

----------------------------------------------------------------------------
(* Runs of entered commands and history file commands over logs of any length *)

\* as many entries as readline_config allows a history file, less one
ManyCommands == [i \in 1..(HistoryLength - 1) |-> "echo a"]

WatermarkLines ==
    { Words(<<"echo", "a">>), Words(<<"nosuch">>), Words(<<"history", "-a", "f">>),
      Words(<<"history", "-w", "f">>), Words(<<"history", "-r", "f">>) }

\* a fresh start, a start that loaded HistoryLength - 1 lines from HISTFILE, and
\* a shell in which HistoryLength - 1 commands have been entered
InitWatermark ==
    \/ Started(PathDirs, "", [p \in {} |-> <<>>], <<>>)
    \/ Started(PathDirs, "h", [p \in {"h"} |-> ManyCommands], <<>>)
    \/ Started(PathDirs, "", [p \in {} |-> <<>>], ManyCommands)

ReadWatermarkInput ==
    \E line \in WatermarkLines :
        nread < MaxWatermarkLines /\ ReadLine(line)

NextWatermark ==
    \/ ReadWatermarkInput
    \/ RunBuiltin
    \/ CommandNotFound

SpecWatermark == InitWatermark /\ [][NextWatermark]_vars

(* C14: in every reachable state, after any sequence of entered commands,    *)
(* history -r, history -w, history -a and the loading at startup, however    *)
(* long the log has grown, 0 <= last_appended_index <= length of the log.    *)
C14_WatermarkWithinLog == last_appended_index \in 0..Len(history)

\* a log longer than HistoryLength: an incremental append has happened and an
\* entry was added after it
C14_WatermarkBelowLength ==
    /\ pc = "prompt"
    /\ Len(history) > HistoryLength
    /\ last_appended_index > 0
    /\ last_appended_index < Len(history)

\* no history was loaded and every line entered so far is a plain command or `history -a f`
OnlyCommandsAndAppends ==
    /\ initial_history_length = 0
    /\ \A i \in 1..Len(history) : history[i] \in {"echo a", "nosuch", "history -a f"}

(* C19: for any sequence of entered commands and `history -a f` calls on one *)
(* file f that starts empty, with no history loaded at startup, f receives   *)
(* every entered command exactly once and in entry order: after each         *)
(* `history -a f` the file holds all commands entered so far, also when more *)
(* than 1000 commands have been entered.                                     *)
C19_AppendFileHoldsEveryCommand ==
    (/\ pc = "prompt"
     /\ OnlyCommandsAndAppends
     /\ history # <<>>
     /\ history[Len(history)] = "history -a f")
        => /\ "f" \in DOMAIN fs
           /\ fs["f"] = history
           /\ Len(history) >= nread

\* more than HistoryLength commands entered, `history -a f` run twice among them
C19_AppendedPastThousand ==
    /\ pc = "prompt"
    /\ OnlyCommandsAndAppends
    /\ Len(history) = HistoryLength + 2
    /\ history[HistoryLength] = "history -a f"
    /\ history[HistoryLength + 1] = "nosuch"
    /\ history[HistoryLength + 2] = "history -a f"
    /\ fs["f"] = history

----------------------------------------------------------------------------
(* Runs of lines with several redirection operators *)

MultiLines ==
    { Words(<<"echo", "hi", ">>", "g">>),
      Words(<<"echo", "hi", ">", "f", ">", "g">>),
      Words(<<"echo", "hi", ">>", "g", "1>", "f">>),
      Words(<<"echo", "hi", ">", "f", ">>", "g">>),
      Words(<<"echo", "hi", "2>", "f", "2>>", "g">>),
      Words(<<"echo", "hi", ">", "f", "2>", "g", "1>>", "k", "2>", "h">>),
      Words(<<"ls", ">", "f", ">", "g">>),
      Words(<<"ls", "2>>", "g", "2>", "f", ">>", "k">>) }

ReadMultiInput ==
    \E line \in MultiLines :
        nread < MaxMultiLines /\ ReadLine(line)

NextMulti ==
    \/ ReadMultiInput
    \/ RunBuiltin
    \/ RunExternal

SpecMulti == Init /\ [][NextMulti]_vars

\* the position of the last operator of the given kind in the token list, 0 when none
LastOperator(toks, ops) ==
    LET at == {i \in 1..Len(toks) : IsOperatorAt(toks, i) /\ Cat(toks[i]) \in ops} IN
    IF at = {} THEN 0 ELSE CHOOSE i \in at : \A j \in at : j <= i

\* the number of operators of the given kind in the token list
OperatorCount(toks, ops) ==
    Cardinality({i \in 1..Len(toks) : IsOperatorAt(toks, i) /\ Cat(toks[i]) \in ops})

\* the targets named after operators of the token list
NamedTargets(toks) == {Cat(toks[i + 1]) : i \in {j \in 1..Len(toks) : IsOperatorAt(toks, j)}}

\* the file p after the step is what opening it in the mode of operator op and
\* writing the given lines leaves
OpenedAs(p, op, lines) ==
    /\ p \in DOMAIN fs'
    /\ fs'[p] = (IF op \in StdoutAppend \cup StderrAppend THEN Content(fs, p) ELSE <<>>) \o lines

\* the step dispatches a line whose targets open, to a builtin or an executable
RedirectedRun ==
    /\ pc = "handle"
    /\ Dispatchable
    /\ (CommandName \in builtin_names \/ Resolvable)
    /\ ~TargetFails

(* C15: when a line holds more than one stdout redirection operator, the     *)
(* target and the mode of the last one are used and the earlier stdout       *)
(* targets are neither opened nor modified; the same holds for the stderr    *)
(* operators, and the two choices are independent of each other.             *)
C15_LastRedirectionWins ==
    [][RedirectedRun =>
        LET toks == Parsed.tokens
            so == LastOperator(toks, StdoutWrite \cup StdoutAppend)
            se == LastOperator(toks, StderrWrite \cup StderrAppend)
            used == (IF so > 0 THEN <<Cat(toks[so + 1])>> ELSE <<>>)
                    \o (IF se > 0 THEN <<Cat(toks[se + 1])>> ELSE <<>>)
            printed == IF CommandName \in builtin_names THEN OutputOfLine ELSE <<>>
        IN /\ opened' = used
           /\ \A p \in NamedTargets(toks) \ {used[i] : i \in 1..Len(used)} :
                /\ p \in DOMAIN fs' <=> p \in DOMAIN fs
                /\ Content(fs', p) = Content(fs, p)
           /\ (so > 0 /\ (se > 0 => toks[se + 1] # toks[so + 1]))
                => OpenedAs(Cat(toks[so + 1]), Cat(toks[so]), printed)
           /\ (se > 0 /\ (so > 0 => toks[se + 1] # toks[so + 1]))
                => OpenedAs(Cat(toks[se + 1]), Cat(toks[se]), <<>>)]_vars

\* two stdout and two stderr operators on one line: k and h were opened, k was
\* appended to, and f, named first with content, is as it was
C15_LastOfEachStreamUsed ==
    /\ pc = "prompt"
    /\ OperatorCount(tokens, StdoutWrite \cup StdoutAppend) = 2
    /\ OperatorCount(tokens, StderrWrite \cup StderrAppend) = 2
    /\ opened = <<"k", "h">>
    /\ "f" \in DOMAIN fs /\ fs["f"] = <<"old">>
    /\ "g" \notin DOMAIN fs
    /\ fs["k"] = <<"hi">>
    /\ fs["h"] = <<>>

----------------------------------------------------------------------------
\* the entries added to the log since startup, which the flush of exit writes
NewEntries == LastN(history, Len(history) - initial_history_length)

(* C16: `exit <N>` with a numeric argument N terminates the process with     *)
(* exit status N, and `exit` with an absent or non-numeric argument          *)
(* terminates it with status 0; in both cases the history flush runs before  *)
(* termination, also when the exit command carries a redirection.            *)
C16_ExitStatusAfterFlush ==
    [][BuiltinRuns("exit") =>
        LET arg == Strip(Join(Tail(Extracted.command))) IN
        /\ pc' = "exited"
        /\ exit_status' = IF IsDigit(arg) THEN IntOf(arg) ELSE 0
        /\ (histfile # "" /\ NewEntries # <<>>)
              => /\ histfile \in DOMAIN fs'
                 /\ LastN(fs'[histfile], Len(NewEntries)) = NewEntries]_vars

----------------------------------------------------------------------------
(* C17: every time control is back at the prompt, no file opened as a        *)
(* redirection target is still open: each target opened for a dispatched     *)
(* command, builtin or external, one stream or both, is closed before the    *)
(* next line is read.                                                        *)
C17_NoTargetOpenAtPrompt == pc = "prompt" => open_files = {}

\* back at the prompt after an external command that had both streams
\* redirected: two files were opened and none is open
C17_BothTargetsClosed ==
    /\ pc = "prompt"
    /\ Len(opened) = 2
    /\ Len(spawned) = 1
    /\ open_files = {}

----------------------------------------------------------------------------
(* Runs of lines of every kind of dispatch, with the history builtin *)

LogLines ==
    { Words(<<"echo", "hi">>), <<SP, "echo", SP, "hi">>, Words(<<"ls">>), Words(<<"nosuch">>),
      <<SP>>,
      Words(<<"history">>), Words(<<"history", "1">>),
      Words(<<"history", "-a", "f">>), Words(<<"history", "-w", "f">>) }

ReadLogInput ==
    \E line \in LogLines :
        nread < MaxLogLines /\ ReadLine(line)

NextLog ==
    \/ ReadLogInput
    \/ EmptyCommand
    \/ RunBuiltin
    \/ RunExternal
    \/ CommandNotFound

SpecLog == Init /\ [][NextLog]_vars

\* the last line of a sequence of lines, None when there is none
LastLine(lines) == IF lines = <<>> THEN None ELSE lines[Len(lines)]

(* C20: each non-blank input line is added to the history log exactly once,  *)
(* and before it is dispatched, whether the command is a builtin, an         *)
(* external command or not found; hence a `history` command (any N >= 1)     *)
(* lists itself as the last entry, and `history -a` / `history -w` write the *)
(* line that invoked them.                                                   *)
C20_LineLoggedOnceBeforeDispatch ==
    [][/\ (pc = "prompt" /\ pc' = "handle")
            => history' = IF Strip(command') # <<>> THEN Append(history, Cat(command'))
                          ELSE history
       /\ (pc = "handle" /\ Dispatchable)
            => /\ LastLine(history) = Cat(command)
               /\ history' = history
               /\ (ListStep /\ ListCount >= 1)
                    => LastLine(console') = "    " \o ToString(Len(history)) \o "  " \o Cat(command)
               /\ (HistoryFileCommand({"-a", "-w"}) /\ ~TargetFails)
                    => /\ pc' = "prompt"
                       /\ LastLine(Content(fs', Cat(Args[2]))) = Cat(command)]_vars

\* `history 1` entered after a command that was not found listed itself only
C20_HistoryListsItself ==
    /\ pc = "prompt"
    /\ history = <<"nosuch", "history 1">>
    /\ console = <<"    2  history 1">>

----------------------------------------------------------------------------
(* Runs with the completer called while a line is typed *)

\* values of PATH: the default one with a file among the directories, one of
\* directories only, and two in which no directory holds an executable file
SearchPaths ==
    { PathDirs, <<"/usr/bin", "/bin">>, <<"/opt/empty">>, <<"/root/bin", "/opt/empty">> }

\* prefixes the completer is called with
Texts == { <<>>, <<"e">>, <<"c">>, <<"l">>, <<"x">> }

\* the states the completer is called with, 0 upwards
MaxState == 2

CompleteLines == { Words(<<"ls">>), Words(<<"type", "cat">>), Words(<<"nosuch">>) }

InitComplete ==
    \E ds \in SearchPaths : Started(ds, "", [p \in {} |-> <<>>], <<>>)

\* readline calls the completer for TAB while input() waits for the line; an
\* exception of the completer is cleared by readline, which then has no completion
Complete ==
    /\ pc = "prompt"
    /\ ncomplete < MaxCompletions
    /\ \E text \in Texts, state \in 0..MaxState :
          LET g == get_all_executables(executables_cache, path_dirs) IN
          /\ executables_cache' = g.cache
          /\ scans' = scans + (IF g.scanned THEN 1 ELSE 0)
          /\ completion' \in (IF g.ok THEN auto_completer(text, state, g.names) ELSE {None})
    /\ ncomplete' = ncomplete + 1
    /\ UNCHANGED <<pc, command, tokens, extracted, history, last_appended_index,
                   initial_history_length, histfile, fs, cwd, sys_stdout, sys_stderr,
                   open_files, opened, console, invoked, spawned, exit_status, error,
                   nread, path_dirs>>

ReadCompleteInput ==
    \E line \in CompleteLines :
        nread < MaxCompleteLines /\ ReadLine(line)

NextComplete ==
    \/ Complete
    \/ ReadCompleteInput
    \/ RunBuiltin
    \/ RunExternal
    \/ CommandNotFound

SpecComplete == InitComplete /\ [][NextComplete]_vars

(* C18: the set of executable names is computed at most once per process:    *)
(* after the first call of get_all_executables every later call returns the  *)
(* cached set without going through the directories again, whatever the      *)
(* first scan found, also when it found no executables.                      *)
C18_ScannedOnce ==
    [][(ncomplete' = ncomplete + 1 /\ ~executables_cache.none) => scans' = scans]_vars

====
